---------------------------- MODULE Spec2Model ----------------------------
(***************************************************************************)
(* A model of VectorCode's incremental synchronisation pass:               *)
(*   src/src/vectorcode/subcommands/vectorise.py  (chunked_add, vectorise) *)
(*   src/src/vectorcode/common.py   (make_or_get_collection, verify_ef)    *)
(*                                                                         *)
(* One pass is the coroutine vectorise(): it acquires the collection,      *)
(* verifies the embedding function, discovers and filters the files,       *)
(* creates one chunked_add task per file, awaits them all, and then runs   *)
(* the orphan pass.  The tasks run on one asyncio event loop: a task runs  *)
(* atomically from one suspension point to the next.  The suspension       *)
(* points are the lock acquisitions and the remote calls, and every        *)
(* action below is the code between two of them.                           *)
(*                                                                         *)
(* asyncio.Lock is modelled by its contract (mutual exclusion); which of   *)
(* several waiters gets a released lock is left open, which includes the   *)
(* first-come-first-served order of the library.                           *)
(***************************************************************************)
EXTENDS Integers, Sequences, FiniteSets, TLC

(***************************************************************************)
(* Bounds of the model.                                                    *)
(***************************************************************************)
\* The collaborator reports a max batch size in 1..MaxBatch.
MaxBatch == 2
\* The number of passes run one after another over the same project.
MaxPasses == 2

(***************************************************************************)
(* The file system.  The program never writes it, so it is constant.       *)
(***************************************************************************)
\* expand_path(file, absolute=True): the canonical absolute path of a file
\* argument; expand_globs returns the arguments "a", "b", "c".  "./a" is a
\* second spelling of "a".
expand_path(f) ==
  CASE f = "a" -> "/p/a"
    [] f = "./a" -> "/p/a"
    [] f = "b" -> "/p/b"
    [] f = "c" -> "/p/c"
    [] OTHER -> f

\* Canonical paths that are files on disk (os.path.isfile).
DiskFiles == {"/p/a", "/p/b", "/p/c"}

\* Paths a stored record may carry; "/p/g" and "/p/h" are not on disk.
Paths == DiskFiles \cup {"/p/g", "/p/h"}

isfile(p) == p \in DiskFiles

\* list(FileChunker(chunk_size, overlap_ratio).chunk(fin)) for the file's
\* present content: k = 2, 1 and 0 chunks.
FileChunks(p) ==
  CASE p = "/p/a" -> <<"x", "y">>
    [] p = "/p/b" -> <<"x">>
    [] OTHER -> <<>>

\* os.path.relpath(full_path_str, configs.project_root), project root /p.
relpath(p) ==
  CASE p = "/p/a" -> "a"
    [] p = "/p/b" -> "b"
    [] p = "/p/c" -> "c"
    [] OTHER -> p

Texts == {"x", "y", "old", "a", "b", "c"}

(***************************************************************************)
(* The remote collection: a set of records [id, path, text].  The four     *)
(* operators are the collaborator's calls as the code issues them.         *)
(***************************************************************************)
\* collection.get(where={"path": p}, include=[metadatas]): matching records.
GetWhere(c, p) == {r \in c : r.path = p}

\* Mutant: the where clause is dropped and every record is deleted.
DeleteWhere_NoFilter(c, p) == {}

\* collection.delete(where={"path": p}).
DeleteWhere(c, p) == {r \in c : r.path # p}

\* Mutant: the bulk delete removes nothing.
DeleteWhereIn_Noop(c, ps) == c

\* collection.delete(where={"path": {"$in": ps}}).
DeleteWhereIn(c, ps) == {r \in c : r.path \notin ps}

\* collection.add(ids, documents, metadatas): one record per position.
AddRecords(c, ids, documents, metadatas) ==
  c \cup {[id |-> ids[i], path |-> metadatas[i], text |-> documents[i]] :
            i \in 1..Len(ids)}

\* get_uuid() called once per inserted chunk: n fresh ids, the model's
\* stand-in for uuid4 being a counter that never repeats.
get_uuids(next, n) == [i \in 1..n |-> next + i - 1]

(***************************************************************************)
(* Configuration and the collection's metadata (common.py).                *)
(***************************************************************************)
\* socket.gethostname(), os.environ["USER"] of the running process.
Hostname == "host"
User == "user"

\* The collection is absent on the server (get_or_create creates it).
NoCollection ==
  [exists |-> FALSE, hostname |-> "", username |-> "", created_by |-> "",
   embedding_function |-> ""]

\* The metadata make_or_get_collection passes to get_or_create_collection.
NewMetadata(configs) ==
  [exists |-> TRUE, hostname |-> Hostname, username |-> User,
   created_by |-> "VectorCode",
   embedding_function |-> configs.embedding_function]

\* client.get_or_create_collection: the stored metadata wins when the
\* collection exists.
get_or_create_collection(srv, configs) ==
  IF srv.exists THEN srv ELSE NewMetadata(configs)

\* make_or_get_collection raises IndexError on a foreign collection.
RaisesIndexError(metadata) ==
  \/ ~(metadata.hostname = Hostname)
  \/ ~(metadata.username = User)
  \/ ~(metadata.created_by = "VectorCode")

\* Mutant: the verification accepts any embedding function.
verify_ef_Ignored(metadata, configs) == TRUE

\* verify_ef: "" stands for a missing (None) embedding_function entry.  The
\* embedding_params branch only prints a warning and returns True.
verify_ef(metadata, configs) ==
  IF metadata.embedding_function # ""
     /\ metadata.embedding_function # configs.embedding_function
  THEN FALSE
  ELSE TRUE

(***************************************************************************)
(* File filtering (vectorise.py lines 93-104).                             *)
(***************************************************************************)
\* gitignore_spec.match_file(file): the ignore-file's rules as the set of
\* file arguments they match.
match_file(gitignore, file) == file \in gitignore.rules

\* [file for file in files if (configs.force or not match_file(file))]
RECURSIVE Comprehension(_, _, _)
Comprehension(fs, gitignore, configs) ==
  IF fs = <<>> THEN <<>>
  ELSE LET file == Head(fs)
           rest == Comprehension(Tail(fs), gitignore, configs)
       IN IF configs.force \/ ~match_file(gitignore, file)
          THEN <<file>> \o rest
          ELSE rest

\* Mutant: the force flag is not consulted.
FilterFiles_NoForce(fs, gitignore, configs) ==
  IF gitignore.isfile
  THEN Comprehension(fs, gitignore, [configs EXCEPT !.force = FALSE])
  ELSE fs

FilterFiles(fs, gitignore, configs) ==
  IF gitignore.isfile THEN Comprehension(fs, gitignore, configs) ELSE fs

(***************************************************************************)
(* chunked_add's pure parts.                                               *)
(***************************************************************************)
\* Mutant: the relative path is not appended.
ReadChunks_NoRelpath(full_path_str) == FileChunks(full_path_str)

\* Lines 56-58: the chunk list with the relative path appended.
ReadChunks(full_path_str) ==
  Append(FileChunks(full_path_str), relpath(full_path_str))

Min(a, b) == IF a <= b THEN a ELSE b

\* Mutant: the slice starts one entry early (idx taken as 1-based).
Slice_Overlap(chunks, idx, max_batch_size) ==
  SubSeq(chunks, IF idx = 0 THEN 1 ELSE idx,
         Min(idx + max_batch_size, Len(chunks)))

\* chunks[idx : idx + max_batch_size] (idx is 0-based as in the code).
Slice(chunks, idx, max_batch_size) ==
  SubSeq(chunks, idx + 1, Min(idx + max_batch_size, Len(chunks)))

\* Mutant: the "not" of line 142 is missing.
Orphanes_Inverted(all_results) ==
  {r.path : r \in {m \in all_results : isfile(m.path)}}

\* Lines 139-143: the stored paths with no file on disk.
Orphanes(all_results) ==
  {r.path : r \in {m \in all_results : ~isfile(m.path)}}

(***************************************************************************)
(* State.                                                                  *)
(***************************************************************************)
VARIABLES
  \* the collaborator and the inputs of a pass
  server,             \* the collection's metadata on the server
  coll,               \* the collection's records
  next_id,            \* source of fresh ids
  server_batch,       \* what client.get_max_batch_size() reports
  configs,            \* Config: embedding_function, force
  gitignore,          \* <project_root>/.gitignore: isfile, rules
  discovered,         \* what expand_globs returns
  \* vectorise()
  pass,               \* number of the running pass
  vpc,                \* position of vectorise
  ret,                \* {} while running, {0} or {1} once returned
  collection,         \* metadata of the collection object
  files,              \* the filtered file list
  stats,              \* {"add", "update", "removed"}
  collection_lock,    \* <<>> free, <<0>> vectorise, <<t>> task t
  stats_lock,
  max_batch_size,
  bar,                \* tasks awaited so far (bar.update)
  all_results,        \* the orphan scan's result
  orphanes,
  \* chunked_add(files[t], ...), t in 1..Len(files)
  file_path,
  pc,
  num_existing_chunks,
  chunks,
  idx,
  \* observation only
  got,                \* per task, the ids its get returned
  cancelled,          \* CancelledError was thrown into vectorise
  add_calls,          \* per task, its add calls <<ids, documents, metadatas>>
  calls,              \* remote calls of the pass, counted by kind
  emitted,            \* the stats show_stats printed in this pass
  coll_start,         \* the collection when the pass started
  prev                \* stats and collection at the end of the previous pass

vars ==
  <<server, coll, next_id, server_batch, configs, gitignore, discovered,
    pass, vpc, ret, collection, files, stats, collection_lock, stats_lock,
    max_batch_size, bar, all_results, orphanes, file_path, pc,
    num_existing_chunks, chunks, idx, got, cancelled, add_calls, calls,
    emitted, coll_start, prev>>

inputs == <<server_batch, configs, gitignore, discovered>>
task_vars == <<pc, num_existing_chunks, chunks, idx, got, add_calls>>
main_locals ==
  <<collection, files, max_batch_size, bar, all_results, orphanes, cancelled,
    file_path>>
locks == <<collection_lock, stats_lock>>
history == <<emitted, coll_start, prev>>

Free == <<>>
Main == <<0>>
Tasks == DOMAIN pc

ZeroStats == [add |-> 0, update |-> 0, removed |-> 0]
NoCalls == [get |-> 0, delete |-> 0, add |-> 0, scan |-> 0, bulk |-> 0]

(***************************************************************************)
(* Initial states: the inputs of the first pass.                           *)
(***************************************************************************)
\* Metadata a collection found on the server may carry.
ServerMetas ==
  LET ours == NewMetadata([embedding_function |-> "EfA"])
  IN {NoCollection, ours,
      [ours EXCEPT !.hostname = "elsewhere"],
      [ours EXCEPT !.username = "other"],
      [ours EXCEPT !.created_by = "someone"],
      [ours EXCEPT !.embedding_function = "EfB"],
      [ours EXCEPT !.embedding_function = ""]}

\* Records an earlier pass may have left: stale and current texts of /p/a,
\* a record of /p/b, and records of two paths without a file.
OldRecords ==
  {[id |-> 1, path |-> "/p/a", text |-> "old"],
   [id |-> 2, path |-> "/p/a", text |-> "x"],
   [id |-> 3, path |-> "/p/b", text |-> "b"],
   [id |-> 4, path |-> "/p/g", text |-> "x"],
   [id |-> 5, path |-> "/p/g", text |-> "g"],
   [id |-> 6, path |-> "/p/h", text |-> "h"]}

InitColls ==
  {{}, OldRecords,
   {r \in OldRecords : r.id \in {1, 2}},
   {r \in OldRecords : r.id \in {3, 4, 5}},
   {r \in OldRecords : r.id \in {2, 6}},
   {r \in OldRecords : r.id \in {4, 5, 6}}}

\* Discovery results with the ignore-file and force flag they meet.
FilterInputs ==
  {[discovered |-> <<"a", "b", "c">>, isfile |-> FALSE,
    rules |-> {}, force |-> FALSE],
   [discovered |-> <<"a", "b", "c">>, isfile |-> TRUE,
    rules |-> {"c"}, force |-> FALSE],
   [discovered |-> <<"a", "b", "c">>, isfile |-> TRUE,
    rules |-> {"b"}, force |-> FALSE],
   [discovered |-> <<"b", "c">>, isfile |-> TRUE,
    rules |-> {"c"}, force |-> TRUE],
   [discovered |-> <<"c", "a">>, isfile |-> FALSE,
    rules |-> {}, force |-> TRUE],
   [discovered |-> <<"b", "a">>, isfile |-> TRUE,
    rules |-> {}, force |-> FALSE],
   [discovered |-> <<"a", "b">>, isfile |-> TRUE,
    rules |-> {"a", "b"}, force |-> FALSE],
   [discovered |-> <<>>, isfile |-> FALSE,
    rules |-> {}, force |-> FALSE]}

Init ==
  /\ server \in ServerMetas
  /\ coll \in InitColls
  /\ (~server.exists => coll = {})
  /\ next_id = 7
  /\ server_batch \in 1..MaxBatch
  /\ \E fi \in FilterInputs :
       /\ configs = [embedding_function |-> "EfA", force |-> fi.force]
       /\ gitignore = [isfile |-> fi.isfile, rules |-> fi.rules]
       /\ discovered = fi.discovered
  /\ pass = 1
  /\ vpc = "start"
  /\ ret = {}
  /\ collection = NoCollection
  /\ files = <<>>
  /\ stats = ZeroStats
  /\ collection_lock = Free
  /\ stats_lock = Free
  /\ max_batch_size = 0
  /\ bar = 0
  /\ all_results = {}
  /\ orphanes = {}
  /\ file_path = <<>>
  /\ pc = <<>>
  /\ num_existing_chunks = <<>>
  /\ chunks = <<>>
  /\ idx = <<>>
  /\ got = <<>>
  /\ cancelled = FALSE
  /\ add_calls = <<>>
  /\ calls = NoCalls
  /\ emitted = <<>>
  /\ coll_start = coll
  /\ prev = [stats |-> ZeroStats, coll |-> {}, files |-> <<>>]

(***************************************************************************)
(* vectorise(), up to the creation of the tasks.                           *)
(***************************************************************************)
\* Lines 85-90: make_or_get_collection; IndexError returns 1.
GetCollection ==
  /\ vpc = "start"
  /\ LET metadata == get_or_create_collection(server, configs)
     IN /\ server' = metadata
        /\ IF RaisesIndexError(metadata)
           THEN /\ ret' = {1}
                /\ vpc' = "returned"
                /\ UNCHANGED collection
           ELSE /\ collection' = metadata
                /\ vpc' = "verify"
                /\ UNCHANGED ret
  /\ UNCHANGED <<coll, next_id, inputs, pass, files, file_path,
                 max_batch_size, bar,
                 all_results, orphanes, cancelled, stats, locks, task_vars,
                 calls, history>>

\* Lines 91-92.
VerifyEf ==
  /\ vpc = "verify"
  /\ IF ~verify_ef(collection, configs)
     THEN ret' = {1} /\ vpc' = "returned"
     ELSE ret' = ret /\ vpc' = "discover"
  /\ UNCHANGED <<server, coll, next_id, inputs, pass, main_locals, stats,
                 locks, task_vars, calls, history>>

\* Lines 93-104: expand_globs and the ignore-file filter.
Discover ==
  /\ vpc = "discover"
  /\ files' = FilterFiles(discovered, gitignore, configs)
  /\ vpc' = "setup"
  /\ UNCHANGED <<server, coll, next_id, inputs, pass, ret, collection,
                 file_path, max_batch_size, bar, all_results, orphanes,
                 cancelled, stats, locks, task_vars, calls, history>>

\* Lines 106-128: the counters, the two locks, the batch size, and one task
\* per file.  With no file the loop of lines 129-131 awaits nothing.
CreateTasks ==
  /\ vpc = "setup"
  /\ stats' = ZeroStats
  /\ collection_lock' = Free
  /\ stats_lock' = Free
  /\ max_batch_size' = server_batch
  /\ file_path' = [t \in 1..Len(files) |-> files[t]]
  /\ pc' = [t \in 1..Len(files) |-> "created"]
  /\ num_existing_chunks' = [t \in 1..Len(files) |-> 0]
  /\ chunks' = [t \in 1..Len(files) |-> <<>>]
  /\ idx' = [t \in 1..Len(files) |-> 0]
  /\ got' = [t \in 1..Len(files) |-> {}]
  /\ add_calls' = [t \in 1..Len(files) |-> <<>>]
  /\ vpc' = IF Len(files) = 0 THEN "orphan" ELSE "awaiting"
  /\ UNCHANGED <<server, coll, next_id, inputs, pass, ret, collection, files,
                 bar, all_results, orphanes, cancelled, calls, history>>

(***************************************************************************)
(* chunked_add(files[t], ...): lines 29-66.                                *)
(***************************************************************************)
\* Line 38.
full_path_str(t) == expand_path(file_path[t])

\* Line 39: async with collection_lock.
AcquireForGet(t) ==
  /\ pc[t] = "created"
  /\ collection_lock = Free
  /\ collection_lock' = <<t>>
  /\ pc' = [pc EXCEPT ![t] = "get"]
  /\ UNCHANGED <<server, coll, next_id, inputs, pass, vpc, ret, main_locals,
                 stats, stats_lock, num_existing_chunks, chunks, idx, got,
                 add_calls, calls, history>>

\* Which branch of line 48 the task takes.
Branch(n) == IF n # 0 THEN "wait_delete" ELSE "wait_stats"

\* Lines 40-48: the get returns, the lock is released, the branch is taken.
Get(t) ==
  /\ pc[t] = "get"
  /\ collection_lock = <<t>>
  /\ LET result == GetWhere(coll, full_path_str(t))
         n == Cardinality(result)
     IN /\ got' = [got EXCEPT ![t] = {r.id : r \in result}]
        /\ num_existing_chunks' = [num_existing_chunks EXCEPT ![t] = n]
        /\ pc' = [pc EXCEPT ![t] = Branch(n)]
  /\ collection_lock' = Free
  /\ calls' = [calls EXCEPT !.get = @ + 1]
  /\ UNCHANGED <<server, coll, next_id, inputs, pass, vpc, ret, main_locals,
                 stats, stats_lock, chunks, idx, add_calls, history>>

\* Mutant: the delete is made without waiting for the collection lock.
AcquireForDelete_NoWait(t) ==
  /\ pc[t] = "wait_delete"
  /\ collection_lock' = <<t>>
  /\ pc' = [pc EXCEPT ![t] = "delete"]
  /\ UNCHANGED <<server, coll, next_id, inputs, pass, vpc, ret, main_locals,
                 stats, stats_lock, num_existing_chunks, chunks, idx, got,
                 add_calls, calls, history>>

\* Line 49.
AcquireForDelete(t) ==
  /\ pc[t] = "wait_delete"
  /\ collection_lock = Free
  /\ collection_lock' = <<t>>
  /\ pc' = [pc EXCEPT ![t] = "delete"]
  /\ UNCHANGED <<server, coll, next_id, inputs, pass, vpc, ret, main_locals,
                 stats, stats_lock, num_existing_chunks, chunks, idx, got,
                 add_calls, calls, history>>

\* Mutant: the delete's lock is kept over the statistics, as if the blocks
\* of lines 49 and 51 were nested.
Delete_KeepsLock(t) ==
  /\ pc[t] = "delete"
  /\ collection_lock = <<t>>
  /\ coll' = DeleteWhere(coll, full_path_str(t))
  /\ calls' = [calls EXCEPT !.delete = @ + 1]
  /\ pc' = [pc EXCEPT ![t] = "wait_stats"]
  /\ UNCHANGED <<server, next_id, inputs, pass, vpc, ret, main_locals, stats,
                 locks, num_existing_chunks, chunks, idx, got,
                 add_calls, history>>

\* Line 50: the delete returns and the lock is released.
Delete(t) ==
  /\ pc[t] = "delete"
  /\ collection_lock = <<t>>
  /\ coll' = DeleteWhere(coll, full_path_str(t))
  /\ collection_lock' = Free
  /\ calls' = [calls EXCEPT !.delete = @ + 1]
  /\ pc' = [pc EXCEPT ![t] = "wait_stats"]
  /\ UNCHANGED <<server, next_id, inputs, pass, vpc, ret, main_locals, stats,
                 stats_lock, num_existing_chunks, chunks, idx, got,
                 add_calls, history>>

\* Lines 51 and 54: async with stats_lock.
AcquireStats(t) ==
  /\ pc[t] = "wait_stats"
  /\ stats_lock = Free
  /\ stats_lock' = <<t>>
  /\ pc' = [pc EXCEPT ![t] = "stats"]
  /\ UNCHANGED <<server, coll, next_id, inputs, pass, vpc, ret, main_locals,
                 stats, collection_lock, num_existing_chunks, chunks, idx,
                 got, add_calls, calls, history>>

\* Mutant: the two branches of line 48 count into each other's counter.
Count_Swapped(st, n) ==
  IF n # 0 THEN [st EXCEPT !.add = @ + 1] ELSE [st EXCEPT !.update = @ + 1]

\* Mutant: the update branch counts the file as added as well.
Count_Both(st, n) ==
  IF n # 0 THEN [st EXCEPT !.update = @ + 1, !.add = @ + 1]
  ELSE [st EXCEPT !.add = @ + 1]

\* Mutant: the update branch leaves the file uncounted.
Count_NoUpdate(st, n) ==
  IF n # 0 THEN st ELSE [st EXCEPT !.add = @ + 1]

\* Lines 48-55: which counter the task increments.
Count(st, n) ==
  IF n # 0 THEN [st EXCEPT !.update = @ + 1] ELSE [st EXCEPT !.add = @ + 1]

\* Lines 52/55 under the stats lock, then lines 56-58: the file is read and
\* chunked before the task waits for the collection lock again.
Increment(t) ==
  /\ pc[t] = "stats"
  /\ stats_lock = <<t>>
  /\ stats' = Count(stats, num_existing_chunks[t])
  /\ stats_lock' = Free
  /\ chunks' = [chunks EXCEPT ![t] = ReadChunks(full_path_str(t))]
  /\ pc' = [pc EXCEPT ![t] = "wait_add"]
  /\ UNCHANGED <<server, coll, next_id, inputs, pass, vpc, ret, main_locals,
                 collection_lock, num_existing_chunks, idx, got, add_calls,
                 calls, history>>

\* Lines 59-60: the lock is taken; a loop over no chunk makes no call and
\* the lock is released at once.
AcquireForAdd(t) ==
  /\ pc[t] = "wait_add"
  /\ collection_lock = Free
  /\ IF Len(chunks[t]) = 0
     THEN pc' = [pc EXCEPT ![t] = "done"] /\ UNCHANGED collection_lock
     ELSE pc' = [pc EXCEPT ![t] = "add"] /\ collection_lock' = <<t>>
  /\ UNCHANGED <<server, coll, next_id, inputs, pass, vpc, ret, main_locals,
                 stats, stats_lock, num_existing_chunks, chunks, idx, got,
                 add_calls, calls, history>>

\* Lines 60-66: one iteration of the loop, one collection.add call; after
\* the last one the lock is released and the task is done.
Add(t) ==
  /\ pc[t] = "add"
  /\ collection_lock = <<t>>
  /\ LET inserted_chunks == Slice(chunks[t], idx[t], max_batch_size)
         ids == get_uuids(next_id, Len(inserted_chunks))
         metadatas == [i \in 1..Len(inserted_chunks) |-> full_path_str(t)]
         last == idx[t] + max_batch_size >= Len(chunks[t])
     IN /\ coll' = AddRecords(coll, ids, inserted_chunks, metadatas)
        /\ next_id' = next_id + Len(inserted_chunks)
        /\ add_calls' = [add_calls EXCEPT
                           ![t] = Append(@, <<ids, inserted_chunks,
                                              metadatas>>)]
        /\ idx' = [idx EXCEPT ![t] = @ + max_batch_size]
        /\ pc' = [pc EXCEPT ![t] = IF last THEN "done" ELSE "add"]
        /\ collection_lock' = IF last THEN Free ELSE collection_lock
  /\ calls' = [calls EXCEPT !.add = @ + 1]
  /\ UNCHANGED <<server, inputs, pass, vpc, ret, main_locals, stats,
                 stats_lock, num_existing_chunks, chunks, got, history>>

(***************************************************************************)
(* vectorise(): the join, the cancellation, the orphan pass.               *)
(***************************************************************************)
Finished == {t \in Tasks : pc[t] = "done"}

\* Mutant: the loop is left after the first finished task, as a wait for the
\* first completion would.
AwaitTask_First ==
  /\ vpc = "awaiting"
  /\ bar < Cardinality(Finished)
  /\ bar' = bar + 1
  /\ vpc' = "orphan"
  /\ UNCHANGED <<server, coll, next_id, inputs, pass, ret, collection, files,
                 file_path, max_batch_size, all_results, orphanes,
                 cancelled, stats, locks, task_vars, calls, history>>

\* Lines 129-131: as_completed hands over one more finished task; after the
\* last one the loop and the try block are left.
AwaitTask ==
  /\ vpc = "awaiting"
  /\ bar < Cardinality(Finished)
  /\ bar' = bar + 1
  /\ vpc' = IF bar + 1 = Len(files) THEN "orphan" ELSE "awaiting"
  /\ UNCHANGED <<server, coll, next_id, inputs, pass, ret, collection, files,
                 file_path, max_batch_size, all_results, orphanes,
                 cancelled, stats, locks, task_vars, calls, history>>

\* Mutant: the CancelledError is swallowed and the pass goes on.
Cancel_Swallowed ==
  /\ vpc = "awaiting"
  /\ cancelled' = TRUE
  /\ vpc' = "orphan"
  /\ UNCHANGED <<server, coll, next_id, inputs, pass, ret, collection, files,
                 file_path, max_batch_size, bar, all_results, orphanes,
                 stats, locks, task_vars, calls, history>>

\* Lines 132-134: CancelledError is thrown into vectorise at "await task".
\* Nothing in vectorise cancels the tasks it created.
Cancel ==
  /\ vpc = "awaiting"
  /\ cancelled' = TRUE
  /\ ret' = {1}
  /\ vpc' = "returned"
  /\ UNCHANGED <<server, coll, next_id, inputs, pass, collection, files,
                 file_path, max_batch_size, bar, all_results, orphanes,
                 stats, locks, task_vars, calls, history>>

\* Line 136.
AcquireForOrphan ==
  /\ vpc = "orphan"
  /\ collection_lock = Free
  /\ collection_lock' = Main
  /\ vpc' = "scan"
  /\ UNCHANGED <<server, coll, next_id, inputs, pass, ret, main_locals, stats,
                 stats_lock, task_vars, calls, history>>

\* Lines 137-143: the full get returns; with no metadatas the block ends.
OrphanScan ==
  /\ vpc = "scan"
  /\ collection_lock = Main
  /\ all_results' = coll
  /\ calls' = [calls EXCEPT !.scan = @ + 1]
  /\ IF coll # {}
     THEN /\ orphanes' = Orphanes(coll)
          /\ vpc' = "wait_removed"
          /\ UNCHANGED collection_lock
     ELSE /\ vpc' = "show"
          /\ collection_lock' = Free
          /\ UNCHANGED orphanes
  /\ UNCHANGED <<server, coll, next_id, inputs, pass, ret, collection, files,
                 file_path, max_batch_size, bar, cancelled, stats, stats_lock,
                 task_vars, history>>

\* Line 144.
AcquireForRemoved ==
  /\ vpc = "wait_removed"
  /\ stats_lock = Free
  /\ stats_lock' = Main
  /\ vpc' = "removed"
  /\ UNCHANGED <<server, coll, next_id, inputs, pass, ret, main_locals, stats,
                 collection_lock, task_vars, calls, history>>

\* Lines 145-146: removed is written; without orphans the block ends.
SetRemoved ==
  /\ vpc = "removed"
  /\ stats_lock = Main
  /\ stats' = [stats EXCEPT !.removed = Cardinality(orphanes)]
  /\ stats_lock' = Free
  /\ IF Cardinality(orphanes) # 0
     THEN vpc' = "bulk_delete" /\ UNCHANGED collection_lock
     ELSE vpc' = "show" /\ collection_lock' = Free
  /\ UNCHANGED <<server, coll, next_id, inputs, pass, ret, main_locals,
                 task_vars, calls, history>>

\* Line 147: the bulk delete returns and the lock is released.
OrphanDelete ==
  /\ vpc = "bulk_delete"
  /\ collection_lock = Main
  /\ coll' = DeleteWhereIn(coll, orphanes)
  /\ calls' = [calls EXCEPT !.bulk = @ + 1]
  /\ collection_lock' = Free
  /\ vpc' = "show"
  /\ UNCHANGED <<server, next_id, inputs, pass, ret, main_locals, stats,
                 stats_lock, task_vars, history>>

\* Lines 149-150.
ShowStats ==
  /\ vpc = "show"
  /\ emitted' = Append(emitted, stats)
  /\ ret' = {0}
  /\ vpc' = "returned"
  /\ UNCHANGED <<server, coll, next_id, inputs, pass, main_locals, stats,
                 locks, task_vars, calls, coll_start, prev>>

\* The command is run again on the same project after a successful pass.
NextPass ==
  /\ vpc = "returned"
  /\ ret = {0}
  /\ pass < MaxPasses
  /\ pass' = pass + 1
  /\ prev' = [stats |-> stats, coll |-> coll, files |-> files]
  /\ coll_start' = coll
  /\ vpc' = "start"
  /\ ret' = {}
  /\ collection' = NoCollection
  /\ files' = <<>>
  /\ stats' = ZeroStats
  /\ collection_lock' = Free
  /\ stats_lock' = Free
  /\ max_batch_size' = 0
  /\ bar' = 0
  /\ all_results' = {}
  /\ orphanes' = {}
  /\ cancelled' = FALSE
  /\ file_path' = <<>>
  /\ pc' = <<>>
  /\ num_existing_chunks' = <<>>
  /\ chunks' = <<>>
  /\ idx' = <<>>
  /\ got' = <<>>
  /\ add_calls' = <<>>
  /\ calls' = NoCalls
  /\ emitted' = <<>>
  /\ UNCHANGED <<server, coll, next_id, inputs>>

Next ==
  \/ GetCollection
  \/ VerifyEf
  \/ Discover
  \/ CreateTasks
  \/ \E t \in Tasks : AcquireForGet(t)
  \/ \E t \in Tasks : Get(t)
  \/ \E t \in Tasks : AcquireForDelete(t)
  \/ \E t \in Tasks : Delete(t)
  \/ \E t \in Tasks : AcquireStats(t)
  \/ \E t \in Tasks : Increment(t)
  \/ \E t \in Tasks : AcquireForAdd(t)
  \/ \E t \in Tasks : Add(t)
  \/ AwaitTask
  \/ Cancel
  \/ AcquireForOrphan
  \/ OrphanScan
  \/ AcquireForRemoved
  \/ SetRemoved
  \/ OrphanDelete
  \/ ShowStats
  \/ NextPass

Spec == Init /\ [][Next]_vars

(***************************************************************************)
(* Faults.  A remote call of a task may raise instead of returning, and    *)
(* so may open() of line 56.  The exception leaves chunked_add through     *)
(* the "async with" blocks, which release the lock the task holds, and is  *)
(* stored in the task.  A raising call changes nothing on the server.      *)
(***************************************************************************)
FailedPcs == {"failed_get", "failed_delete", "failed_read", "failed_add"}

\* A task that takes no further step.
Settled(t) == pc[t] \in FailedPcs \cup {"done", "aborted"}

\* Mutant: the exception of the get leaves the lock held.
GetFails_KeepsLock(t) ==
  /\ pc[t] = "get"
  /\ collection_lock = <<t>>
  /\ calls' = [calls EXCEPT !.get = @ + 1]
  /\ pc' = [pc EXCEPT ![t] = "failed_get"]
  /\ UNCHANGED <<server, coll, next_id, inputs, pass, vpc, ret, main_locals,
                 stats, locks, num_existing_chunks, chunks, idx, got,
                 add_calls, history>>

\* Lines 39-47: collection.get raises.
GetFails(t) ==
  /\ pc[t] = "get"
  /\ collection_lock = <<t>>
  /\ collection_lock' = Free
  /\ calls' = [calls EXCEPT !.get = @ + 1]
  /\ pc' = [pc EXCEPT ![t] = "failed_get"]
  /\ UNCHANGED <<server, coll, next_id, inputs, pass, vpc, ret, main_locals,
                 stats, stats_lock, num_existing_chunks, chunks, idx, got,
                 add_calls, history>>

\* Lines 49-50: collection.delete raises.
DeleteFails(t) ==
  /\ pc[t] = "delete"
  /\ collection_lock = <<t>>
  /\ collection_lock' = Free
  /\ calls' = [calls EXCEPT !.delete = @ + 1]
  /\ pc' = [pc EXCEPT ![t] = "failed_delete"]
  /\ UNCHANGED <<server, coll, next_id, inputs, pass, vpc, ret, main_locals,
                 stats, stats_lock, num_existing_chunks, chunks, idx, got,
                 add_calls, history>>

\* Lines 51-56: the counter of the branch is incremented under the stats
\* lock, then open() raises.
OpenFails(t) ==
  /\ pc[t] = "stats"
  /\ stats_lock = <<t>>
  /\ stats' = Count(stats, num_existing_chunks[t])
  /\ stats_lock' = Free
  /\ pc' = [pc EXCEPT ![t] = "failed_read"]
  /\ UNCHANGED <<server, coll, next_id, inputs, pass, vpc, ret, main_locals,
                 collection_lock, num_existing_chunks, chunks, idx, got,
                 add_calls, calls, history>>

\* Lines 59-66: collection.add raises; the batches added before it stay.
AddFails(t) ==
  /\ pc[t] = "add"
  /\ collection_lock = <<t>>
  /\ collection_lock' = Free
  /\ calls' = [calls EXCEPT !.add = @ + 1]
  /\ pc' = [pc EXCEPT ![t] = "failed_add"]
  /\ UNCHANGED <<server, coll, next_id, inputs, pass, vpc, ret, main_locals,
                 stats, stats_lock, num_existing_chunks, chunks, idx, got,
                 add_calls, history>>

\* Lines 129-131: "await task" on a task that raised re-raises its
\* exception; only CancelledError is caught (line 132), so the exception
\* leaves vectorise.
AwaitFailed ==
  /\ vpc = "awaiting"
  /\ \E t \in Tasks : pc[t] \in FailedPcs
  /\ vpc' = "raised"
  /\ UNCHANGED <<server, coll, next_id, inputs, pass, ret, main_locals, stats,
                 locks, task_vars, calls, history>>

\* Lines 136-137: the full get raises; the lock is released.
OrphanScanFails ==
  /\ vpc = "scan"
  /\ collection_lock = Main
  /\ collection_lock' = Free
  /\ calls' = [calls EXCEPT !.scan = @ + 1]
  /\ vpc' = "raised"
  /\ UNCHANGED <<server, coll, next_id, inputs, pass, ret, main_locals, stats,
                 stats_lock, task_vars, history>>

\* Lines 146-147: the bulk delete raises; the lock is released.
OrphanDeleteFails ==
  /\ vpc = "bulk_delete"
  /\ collection_lock = Main
  /\ collection_lock' = Free
  /\ calls' = [calls EXCEPT !.bulk = @ + 1]
  /\ vpc' = "raised"
  /\ UNCHANGED <<server, coll, next_id, inputs, pass, ret, main_locals, stats,
                 stats_lock, task_vars, history>>

\* vectorise has returned or raised while tasks it created are unfinished:
\* the process exits with vectorise's outcome and the unfinished tasks end
\* where they are, releasing the locks they hold.
Exit ==
  /\ vpc \in {"returned", "raised"}
  /\ \E t \in Tasks : ~Settled(t)
  /\ pc' = [t \in Tasks |-> IF Settled(t) THEN pc[t] ELSE "aborted"]
  /\ collection_lock' = IF collection_lock = Main THEN Main ELSE Free
  /\ stats_lock' = IF stats_lock = Main THEN Main ELSE Free
  /\ UNCHANGED <<server, coll, next_id, inputs, pass, vpc, ret, main_locals,
                 stats, num_existing_chunks, chunks, idx, got, add_calls,
                 calls, history>>

NextFaults ==
  \/ Next
  \/ \E t \in Tasks : GetFails(t)
  \/ \E t \in Tasks : DeleteFails(t)
  \/ \E t \in Tasks : OpenFails(t)
  \/ \E t \in Tasks : AddFails(t)
  \/ AwaitFailed
  \/ OrphanScanFails
  \/ OrphanDeleteFails
  \/ Exit

\* The passes with faults start from an empty or a fully populated collection
\* and discover three files or two.
InitFaults ==
  /\ Init
  /\ server \in {NoCollection, NewMetadata([embedding_function |-> "EfA"])}
  /\ coll \in {{}, OldRecords}
  /\ discovered \in {<<"a", "b", "c">>, <<"b", "a">>}
  /\ gitignore.rules = {}

SpecFaults == InitFaults /\ [][NextFaults]_vars

(***************************************************************************)
(* Fair scheduling.  The event loop runs every task that can run and       *)
(* vectorise when it can run, and every call of the collaborator returns   *)
(* or raises.  A cancellation and the end of the process may come or not.  *)
(***************************************************************************)
TaskStep ==
  \E t \in Tasks :
    \/ AcquireForGet(t) \/ Get(t) \/ GetFails(t)
    \/ AcquireForDelete(t) \/ Delete(t) \/ DeleteFails(t)
    \/ AcquireStats(t) \/ Increment(t) \/ OpenFails(t)
    \/ AcquireForAdd(t) \/ Add(t) \/ AddFails(t)

MainStep ==
  \/ GetCollection \/ VerifyEf \/ Discover \/ CreateTasks
  \/ AwaitTask \/ AwaitFailed
  \/ AcquireForOrphan \/ OrphanScan \/ OrphanScanFails
  \/ AcquireForRemoved \/ SetRemoved
  \/ OrphanDelete \/ OrphanDeleteFails
  \/ ShowStats

\* One run of vectorise: every step of NextFaults but NextPass.
NextOnePass ==
  \/ TaskStep
  \/ MainStep
  \/ Cancel
  \/ Exit

SpecFair ==
  /\ InitFaults
  /\ [][NextOnePass]_vars
  /\ WF_vars(TaskStep)
  /\ WF_vars(MainStep)

\* The same canonical path named twice: "a" and "./a" both expand to "/p/a"
\* (chunked_add canonicalises its argument itself, line 38).
InitDup ==
  /\ server \in {NoCollection, NewMetadata([embedding_function |-> "EfA"])}
  /\ coll \in {{}, OldRecords}
  /\ (~server.exists => coll = {})
  /\ next_id = 7
  /\ server_batch \in 1..MaxBatch
  /\ configs = [embedding_function |-> "EfA", force |-> FALSE]
  /\ gitignore = [isfile |-> FALSE, rules |-> {}]
  /\ discovered \in {<<"a", "./a">>, <<"b", "a", "./a">>}
  /\ pass = 1
  /\ vpc = "start"
  /\ ret = {}
  /\ collection = NoCollection
  /\ files = <<>>
  /\ stats = ZeroStats
  /\ collection_lock = Free
  /\ stats_lock = Free
  /\ max_batch_size = 0
  /\ bar = 0
  /\ all_results = {}
  /\ orphanes = {}
  /\ file_path = <<>>
  /\ pc = <<>>
  /\ num_existing_chunks = <<>>
  /\ chunks = <<>>
  /\ idx = <<>>
  /\ got = <<>>
  /\ cancelled = FALSE
  /\ add_calls = <<>>
  /\ calls = NoCalls
  /\ emitted = <<>>
  /\ coll_start = coll
  /\ prev = [stats |-> ZeroStats, coll |-> {}, files |-> <<>>]

SpecDup == InitDup /\ [][Next]_vars

(***************************************************************************)
(* Notions the properties share.                                           *)
(***************************************************************************)
\* A collection as a multiset of (path, text) pairs: every pair with the
\* number of records that carry it, the ids left out.
Content(c) ==
  {<<r.path, r.text,
     Cardinality({q \in c : q.path = r.path /\ q.text = r.text})>> : r \in c}

\* The file arguments name pairwise distinct canonical paths.
DistinctPaths(fs) ==
  \A i, j \in 1..Len(fs) : expand_path(fs[i]) = expand_path(fs[j]) => i = j

AllTasksDone == \A t \in Tasks : pc[t] = "done"

\* The ids task t minted, over all its add calls.
MintedBy(t) ==
  UNION {{add_calls[t][k][1][i] : i \in DOMAIN add_calls[t][k][1]} :
           k \in DOMAIN add_calls[t]}

(***************************************************************************)
(* chunked_add run alone from start to end on collection c, ids from nxt:  *)
(* the composition of Get, Delete and the Add loop with no other task in   *)
(* between.  The result is <<collection, next id>>.                        *)
(***************************************************************************)
RECURSIVE AddLoop(_, _, _, _, _, _)
AddLoop(c, nxt, p, chs, i, mbs) ==
  IF i >= Len(chs) THEN <<c, nxt>>
  ELSE LET inserted_chunks == Slice(chs, i, mbs)
           ids == get_uuids(nxt, Len(inserted_chunks))
           metadatas == [k \in 1..Len(inserted_chunks) |-> p]
       IN AddLoop(AddRecords(c, ids, inserted_chunks, metadatas),
                  nxt + Len(inserted_chunks), p, chs, i + mbs, mbs)

ChunkedAddAlone(c, nxt, file, mbs) ==
  LET p == expand_path(file)
      n == Cardinality(GetWhere(c, p))
      c1 == IF n # 0 THEN DeleteWhere(c, p) ELSE c
  IN AddLoop(c1, nxt, p, ReadChunks(p), 0, mbs)

\* The tasks of fs run one after another in the order given by order.
RECURSIVE Sequential(_, _, _, _, _, _)
Sequential(c, nxt, fs, order, k, mbs) ==
  IF k > Len(fs) THEN c
  ELSE LET r == ChunkedAddAlone(c, nxt, fs[order[k]], mbs)
       IN Sequential(r[1], r[2], fs, order, k + 1, mbs)

Orders(n) == {o \in [1..n -> 1..n] : \A i, j \in 1..n : o[i] = o[j] => i = j}

(***************************************************************************)
(* C1.  For a file list of pairwise distinct canonical paths and any       *)
(* initial collection, once every chunked_add task has finished (and       *)
(* before the orphan pass deletes anything) the collection holds the same  *)
(* multiset of (path, text) pairs as the same tasks run one after another, *)
(* in whichever order.                                                     *)
(***************************************************************************)
C1_Settled == pc # <<>> /\ AllTasksDone /\ calls.bulk = 0

C1_Convergent ==
  (C1_Settled /\ DistinctPaths(files)) =>
    \A o \in Orders(Len(files)) :
      Content(coll) =
        Content(Sequential(coll_start, next_id, files, o, 1, max_batch_size))

\* Three tasks finished, the second one inserted before the first, the
\* first one replaced records of an earlier pass.
C1_Witness ==
  /\ C1_Settled
  /\ Len(files) = 3
  /\ DistinctPaths(files)
  /\ num_existing_chunks[1] > 0
  /\ add_calls[2][1][1][1] < add_calls[1][1][1][1]

(***************************************************************************)
(* C2.  When vectorise has returned 0, every file of the filtered list has *)
(* under its canonical path exactly its k chunks and its relative path,    *)
(* k + 1 records, none of them older than this pass, and no record of the  *)
(* collection names a path that is no file on disk.                        *)
(***************************************************************************)
Occurrences(seq, x) == Cardinality({i \in 1..Len(seq) : seq[i] = x})

C2_FileSynced(i) ==
  LET p == expand_path(files[i])
      recs == {r \in coll : r.path = p}
      expected == Append(FileChunks(p), relpath(p))
  IN /\ Cardinality(recs) = Len(FileChunks(p)) + 1
     /\ \A txt \in Texts :
          Cardinality({r \in recs : r.text = txt}) = Occurrences(expected, txt)
     /\ Cardinality({r \in recs : r.text = relpath(p)}) = 1
     /\ recs \cap coll_start = {}

C2_Synced ==
  ret = {0} =>
    /\ \A i \in 1..Len(files) : C2_FileSynced(i)
    /\ \A r \in coll : isfile(r.path)

\* A first pass over three files that replaced stale records and removed
\* orphans has returned 0.
C2_Witness ==
  /\ ret = {0}
  /\ Len(files) = 3
  /\ calls.delete >= 1
  /\ calls.bulk = 1

(***************************************************************************)
(* C3.  A task whose get returned no record counts the file as added, a    *)
(* task whose get returned records counts it as updated: each task that    *)
(* has passed lines 48-55 has added exactly 1 to its counter and nothing   *)
(* to the other.  When a task that found records is done, none of the      *)
(* records it found is left and every record of its path is one it         *)
(* inserted itself.                                                        *)
(***************************************************************************)
Counted(t) == pc[t] \in {"wait_add", "add", "done"}

C3_Classified ==
  /\ stats.add = Cardinality({t \in Tasks : Counted(t) /\ got[t] = {}})
  /\ stats.update = Cardinality({t \in Tasks : Counted(t) /\ got[t] # {}})
  /\ \A t \in Tasks :
       (pc[t] = "done" /\ got[t] # {}) =>
         \A r \in coll :
           r.path = expand_path(files[t]) =>
             r.id \notin got[t] /\ r.id \in MintedBy(t)

\* One task done as an update, one done as an add, a third one inserting.
C3_Witness ==
  /\ \E t \in Tasks : pc[t] = "done" /\ got[t] # {}
  /\ \E t \in Tasks : pc[t] = "done" /\ got[t] = {}
  /\ \E t \in Tasks : pc[t] = "add"

(***************************************************************************)
(* C4.  The orphan scan runs with every task done.  After the orphan pass  *)
(* removed is the number of distinct stored paths without a file, one bulk *)
(* delete was issued if there is such a path and none otherwise, no record *)
(* of such a path is left and the records of existing files are those the  *)
(* scan saw.                                                               *)
(***************************************************************************)
OrphanPassDone == vpc = "show" \/ (vpc = "returned" /\ ret = {0})

C4_OrphanPaths ==
  {p \in Paths : ~isfile(p) /\ \E r \in all_results : r.path = p}

C4_Orphans ==
  /\ vpc \in {"wait_removed", "removed", "bulk_delete"} =>
       all_results = coll /\ AllTasksDone
  /\ OrphanPassDone =>
       /\ calls.scan = 1
       /\ stats.removed = Cardinality(C4_OrphanPaths)
       /\ calls.bulk = IF C4_OrphanPaths = {} THEN 0 ELSE 1
       /\ coll = {r \in all_results : isfile(r.path)}

\* Two orphan paths with three records between them were removed.
C4_Witness ==
  /\ OrphanPassDone
  /\ stats.removed = 2
  /\ Cardinality(all_results \ coll) = 3
  /\ Len(files) >= 2

(***************************************************************************)
(* C5.  A pass run right after a successful pass over the same files and   *)
(* disk reports added = 0, updated = the number of files and removed = 0,  *)
(* and leaves the same multiset of (path, text) pairs.                     *)
(***************************************************************************)
C5_Idempotent ==
  (pass >= 2 /\ ret = {0}) =>
    /\ files = prev.files
    /\ stats.add = 0
    /\ stats.update = Len(prev.files)
    /\ stats.removed = 0
    /\ emitted = <<stats>>
    /\ Content(coll) = Content(prev.coll)

\* The second pass over three files has returned 0; the first one had added
\* files and removed orphans.
C5_Witness ==
  /\ pass = 2
  /\ ret = {0}
  /\ Len(files) = 3
  /\ prev.stats.add >= 1
  /\ prev.stats.removed = 2

(***************************************************************************)
(* C6.  Every collection.add call carries between 1 and max_batch_size     *)
(* entries, as many ids as documents as metadatas; the documents of a      *)
(* task's calls, in call order, are a prefix of the file's chunks followed *)
(* by its relative path, and all of it once the task is done; no id is     *)
(* used twice.                                                             *)
(***************************************************************************)
RECURSIVE Documents(_)
Documents(cs) == IF cs = <<>> THEN <<>> ELSE Head(cs)[2] \o Documents(Tail(cs))

C6_Batches ==
  \A t \in Tasks :
    LET p == expand_path(files[t])
        entries == Append(FileChunks(p), relpath(p))
        docs == Documents(add_calls[t])
    IN /\ \A k \in DOMAIN add_calls[t] :
            /\ Len(add_calls[t][k][2]) >= 1
            /\ Len(add_calls[t][k][2]) <= max_batch_size
            /\ Len(add_calls[t][k][1]) = Len(add_calls[t][k][2])
            /\ Len(add_calls[t][k][3]) = Len(add_calls[t][k][2])
       /\ Len(docs) <= Len(entries)
       /\ docs = SubSeq(entries, 1, Len(docs))
       /\ pc[t] = "done" => docs = entries
       /\ Cardinality(MintedBy(t)) = Len(docs)
       /\ \A u \in Tasks : u # t => MintedBy(u) \cap MintedBy(t) = {}

\* A file of three entries went out as a batch of two and a batch of one.
C6_Witness ==
  \E t \in Tasks :
    /\ pc[t] = "done"
    /\ max_batch_size = 2
    /\ Len(add_calls[t]) = 2
    /\ Len(add_calls[t][1][2]) = 2
    /\ Len(add_calls[t][2][2]) = 1

(***************************************************************************)
(* C7.  Once CancelledError has reached vectorise while it awaited the     *)
(* tasks, vectorise has returned 1 and, whatever the tasks still do, the   *)
(* orphan scan and the bulk delete are never issued, removed is never      *)
(* written and no stats are emitted.                                       *)
(***************************************************************************)
C7_Aborted ==
  cancelled =>
    /\ vpc = "returned"
    /\ ret = {1}
    /\ calls.scan = 0
    /\ calls.bulk = 0
    /\ all_results = {}
    /\ stats.removed = 0
    /\ emitted = <<>>
    /\ collection_lock # Main
    /\ stats_lock # Main

\* The pass was cancelled, its tasks have run to their end since, and the
\* collection still holds a record of a path without a file.
C7_Witness ==
  /\ cancelled
  /\ Len(files) = 3
  /\ AllTasksDone
  /\ \E r \in coll : ~isfile(r.path)

(***************************************************************************)
(* C8.  With a collection that make_or_get_collection refuses (foreign     *)
(* hostname, username or creator) or whose embedding function differs from *)
(* the configured one, the pass gets no further than the two checks: it    *)
(* returns 1, creates no task and issues no get, delete or add.  A return  *)
(* of 0 comes only with one finished task per file and the orphan scan     *)
(* made.                                                                   *)
(***************************************************************************)
C8_Refused ==
  /\ server.exists
  /\ \/ server.hostname # "host"
     \/ server.username # "user"
     \/ server.created_by # "VectorCode"
     \/ server.embedding_function \notin {"", configs.embedding_function}

C8_FailFast ==
  /\ C8_Refused =>
       /\ vpc \in {"start", "verify", "returned"}
       /\ ret # {0}
       /\ vpc = "returned" => ret = {1}
       /\ pc = <<>> /\ file_path = <<>> /\ files = <<>>
       /\ calls = NoCalls
       /\ coll = coll_start
  /\ ret = {0} =>
       /\ vpc = "returned"
       /\ Len(pc) = Len(files)
       /\ AllTasksDone
       /\ calls.scan = 1
       /\ collection_lock = Free

\* A pass on a non-empty collection embedded with another function has
\* returned 1.
C8_Witness ==
  /\ server.exists
  /\ server.embedding_function = "EfB"
  /\ coll # {}
  /\ vpc = "returned"
  /\ ret = {1}

(***************************************************************************)
(* C9.  In every state added + updated is at most the number of tasks that *)
(* have started, removed is at most the number of distinct paths the       *)
(* orphan scan saw, no counter is negative, and within a pass no step      *)
(* lowers a counter.                                                       *)
(***************************************************************************)
Started == {t \in Tasks : pc[t] # "created"}

C9_Bounded ==
  /\ stats.add + stats.update <= Cardinality(Started)
  /\ Cardinality(Started) <= Len(files)
  /\ stats.removed <= Cardinality({r.path : r \in all_results})
  /\ stats.add >= 0 /\ stats.update >= 0 /\ stats.removed >= 0

C9_NeverLowered ==
  (pass' = pass) =>
    /\ stats'.add >= stats.add
    /\ stats'.update >= stats.update
    /\ stats'.removed >= stats.removed

C9_Counters == []C9_Bounded /\ [][C9_NeverLowered]_vars

\* All three tasks are counted and the orphan pass has counted two paths.
C9_Witness ==
  /\ vpc = "show"
  /\ stats.add + stats.update = 3
  /\ stats.add >= 1 /\ stats.update >= 1
  /\ stats.removed = 2

(***************************************************************************)
(* C10.  The filtered file list is: with an ignore-file, the discovered    *)
(* files, in order, that the force flag keeps or no rule matches; without  *)
(* one, the discovered files as they are.  The tasks created are one per   *)
(* entry of that list, in its order.                                       *)
(***************************************************************************)
C10_Kept(f) == configs.force \/ f \notin gitignore.rules

C10_FilesKnown ==
  /\ vpc \notin {"start", "verify", "discover"}
  /\ ~(vpc = "returned" /\ ret = {1} /\ ~cancelled)

C10_TasksCreated == C10_FilesKnown /\ vpc # "setup"

C10_Filtered ==
  /\ C10_FilesKnown =>
       files = IF gitignore.isfile
               THEN SelectSeq(discovered, C10_Kept)
               ELSE discovered
  /\ C10_TasksCreated => file_path = files /\ DOMAIN pc = DOMAIN files

\* Tasks exist for a list that kept a file an ignore rule matches, because
\* of the force flag.
C10_Witness ==
  /\ C10_TasksCreated
  /\ gitignore.isfile
  /\ configs.force
  /\ \E i \in 1..Len(files) : files[i] \in gitignore.rules

(***************************************************************************)
(* C11.  The orphan pass waits for the join: whenever the orphan scan is   *)
(* in flight or has been made (and so whenever the bulk delete is), every  *)
(* chunked_add task has finished with its last remote call behind it and   *)
(* no lock in its hands; and from the scan on, no step of the pass makes   *)
(* a per-file get, delete or add call.  Checked with failing calls too.    *)
(***************************************************************************)
OrphanPassStarted ==
  \/ vpc \in {"scan", "wait_removed", "removed", "bulk_delete", "show"}
  \/ calls.scan > 0
  \/ calls.bulk > 0

C11_Joined ==
  OrphanPassStarted =>
    /\ AllTasksDone
    /\ bar = Len(files)
    /\ \A t \in Tasks : collection_lock # <<t>> /\ stats_lock # <<t>>

C11_NoLateCall ==
  (OrphanPassStarted /\ pass' = pass) =>
    /\ calls'.get = calls.get
    /\ calls'.delete = calls.delete
    /\ calls'.add = calls.add
    /\ pc' = pc

C11_JoinBarrier == []C11_Joined /\ [][C11_NoLateCall]_vars

\* The bulk delete is in flight after three tasks made their calls.
C11_Witness ==
  /\ vpc = "bulk_delete"
  /\ Len(files) = 3
  /\ calls.get = 3
  /\ calls.delete >= 1
  /\ calls.add >= 4

(***************************************************************************)
(* C12.  Remote calls on the collection are serialised: at any moment at   *)
(* most one get, delete, add, scan or bulk delete is in flight, over all   *)
(* tasks and the orphan pass together, and whoever has it in flight is     *)
(* the holder of the collection lock.  At most one party stands inside an  *)
(* "async with collection_lock" block and at most one inside an "async     *)
(* with stats_lock" block, and it is the one the lock names.               *)
(***************************************************************************)
\* Who has a remote call on the collection in flight.
InFlight ==
  {<<t>> : t \in {u \in Tasks : pc[u] \in {"get", "delete", "add"}}}
    \cup (IF vpc \in {"scan", "bulk_delete"} THEN {Main} ELSE {})

\* Who stands inside a block of the collection lock, by position.
InCollectionBlock ==
  {<<t>> : t \in {u \in Tasks : pc[u] \in {"get", "delete", "add"}}}
    \cup (IF vpc \in {"scan", "wait_removed", "removed", "bulk_delete"}
          THEN {Main} ELSE {})

\* Who stands inside a block of the stats lock, by position.
InStatsBlock ==
  {<<t>> : t \in {u \in Tasks : pc[u] = "stats"}}
    \cup (IF vpc = "removed" THEN {Main} ELSE {})

C12_Serialised ==
  /\ Cardinality(InFlight) <= 1
  /\ \A h \in InFlight : collection_lock = h
  /\ Cardinality(InCollectionBlock) <= 1
  /\ \A h \in InCollectionBlock : collection_lock = h
  /\ Cardinality(InStatsBlock) <= 1
  /\ \A h \in InStatsBlock : stats_lock = h

\* One task has an add in flight while a second waits to delete and a third
\* increments its counter under the stats lock.
C12_Witness ==
  \E t, u, w \in Tasks :
    /\ pc[t] = "add" /\ collection_lock = <<t>>
    /\ pc[u] = "wait_delete"
    /\ pc[w] = "stats" /\ stats_lock = <<w>>

(***************************************************************************)
(* C13.  A remote call that raises in a task leaves no increment behind:   *)
(* the counters count exactly the tasks that passed the increment and did  *)
(* not fail at a remote call, added for those whose get returned nothing   *)
(* and updated for the others; in particular a task whose insert raised    *)
(* is in neither.  (The states after the process ended tasks are left      *)
(* out: an ended task no longer shows how far it came.)                    *)
(***************************************************************************)
\* Tasks past lines 51-55 without a remote call of theirs having raised.
CountedUnfailed ==
  {t \in Tasks : pc[t] \in {"wait_add", "add", "done", "failed_read"}}

C13_NoCountOnFailure ==
  (\A t \in Tasks : pc[t] # "aborted") =>
    /\ stats.add = Cardinality({t \in CountedUnfailed : got[t] = {}})
    /\ stats.update = Cardinality({t \in CountedUnfailed : got[t] # {}})

(***************************************************************************)
(* C14.  An error of one file stays in that file's task: as long as no     *)
(* cancellation was requested, no task is ended before it has finished on  *)
(* its own, so every sibling of a failed task still gets to insert its     *)
(* records, whichever task failed and wherever.                            *)
(***************************************************************************)
C14_SiblingsFinish ==
  ~cancelled => \A t \in Tasks : pc[t] # "aborted"

(***************************************************************************)
(* C15.  A cancellation aborts the tasks in flight: once vectorise has     *)
(* caught the CancelledError and returned 1, no step makes a per-file      *)
(* get, delete or add call and no step increments a counter any more.      *)
(***************************************************************************)
\* A step in which task t issues a remote call: it enters a get or a delete,
\* or enters or re-enters the add loop's call.
IssuesCall(t) ==
  /\ pc'[t] \in {"get", "delete", "add"}
  /\ pc'[t] # pc[t] \/ idx'[t] # idx[t]

C15_Quiet ==
  cancelled =>
    /\ \A t \in Tasks : ~IssuesCall(t)
    /\ stats' = stats

C15_Aborted == [][C15_Quiet]_vars

(***************************************************************************)
(* C16.  The counters are incremented under the stats lock alone: no task  *)
(* ever holds both locks, a task waiting for or holding the stats lock     *)
(* does not hold the collection lock (so it keeps no other task from its   *)
(* remote call), and every step that changes added or updated is taken by  *)
(* a task that holds the stats lock and not the collection lock.           *)
(***************************************************************************)
C16_Disjoint ==
  \A t \in Tasks :
    /\ ~(collection_lock = <<t>> /\ stats_lock = <<t>>)
    /\ pc[t] \in {"wait_stats", "stats"} => collection_lock # <<t>>
    /\ stats_lock = <<t>> => pc[t] = "stats"

C16_UnderStatsLock ==
  (pass' = pass /\ (stats'.add # stats.add \/ stats'.update # stats.update))
    => \E t \in Tasks :
         /\ pc[t] = "stats" /\ pc'[t] # "stats"
         /\ stats_lock = <<t>>
         /\ collection_lock # <<t>>
         /\ stats_lock' = Free

C16_StatsAlone == []C16_Disjoint /\ [][C16_UnderStatsLock]_vars

\* A task that deleted stands at its increment under the stats lock while
\* another task's delete is in flight and a third waits for the stats lock.
C16_Witness ==
  \E t, u, w \in Tasks :
    /\ pc[t] = "stats" /\ stats_lock = <<t>> /\ num_existing_chunks[t] > 0
    /\ pc[u] = "delete" /\ collection_lock = <<u>>
    /\ pc[w] = "wait_stats"

IdsUnder(t) == {r.id : r \in GetWhere(coll, full_path_str(t))}

C18_ThreeHolds ==
  \A t \in Tasks :
    /\ pc[t] \in {"created", "wait_delete", "wait_stats", "stats",
                  "wait_add", "done"} => collection_lock # <<t>>
    /\ pc[t] \in {"get", "delete", "add"} => collection_lock = <<t>>

C18_Undisturbed ==
  DistinctPaths(files) =>
    \A t \in Tasks :
      /\ pc[t] \in {"wait_delete", "delete"} =>
           /\ got[t] # {}
           /\ IdsUnder(t) = got[t]
      /\ pc[t] \in {"wait_stats", "stats", "wait_add"} => IdsUnder(t) = {}
      /\ pc[t] \in {"add", "done"} => IdsUnder(t) = MintedBy(t)

C18_Step ==
  (pass' = pass /\ DistinctPaths(files)) =>
    \A t \in Tasks :
      \* the lock is taken at the three places only
      /\ (collection_lock # <<t>> /\ collection_lock' = <<t>>) =>
           <<pc[t], pc'[t]>> \in {<<"created", "get">>,
                                  <<"wait_delete", "delete">>,
                                  <<"wait_add", "add">>}
      \* the delete removes what the query returned
      /\ (pc[t] = "delete" /\ pc'[t] # "delete") =>
           /\ coll' \subseteq coll
           /\ {r.id : r \in coll \ coll'} = got[t]
      \* between two batches the lock stays and nobody else calls
      /\ pc[t] = "add" =>
           /\ pc'[t] = "add" => collection_lock' = <<t>>
           /\ calls' # calls =>
                /\ Len(add_calls'[t]) = Len(add_calls[t]) + 1
                /\ calls' = [calls EXCEPT !.add = @ + 1]

C18_PerPathAtomic ==
  []C18_ThreeHolds /\ []C18_Undisturbed /\ [][C18_Step]_vars

\* Between a task's query, which returned two records, and its delete,
\* another task is between two batches of its insert.
C18_Witness ==
  \E t, u \in Tasks :
    /\ pc[t] = "wait_delete" /\ Cardinality(got[t]) = 2
    /\ pc[u] = "add" /\ Len(add_calls[u]) = 1
    /\ DistinctPaths(files)

(***************************************************************************)
(* C19.  The pass neither deadlocks nor runs forever.  No task waits for   *)
(* the collection lock with the stats lock in hand, and vectorise does not *)
(* either; a task whose call raised holds no lock, and neither does        *)
(* vectorise after it raised.  Under fair scheduling, with calls that      *)
(* return or raise, the run reaches a state it stays in where vectorise    *)
(* has returned or raised and every task has finished.                     *)
(***************************************************************************)
C19_NoHoldAndWait ==
  /\ \A t \in Tasks :
       pc[t] \in {"created", "wait_delete", "wait_add"} => stats_lock # <<t>>
  /\ vpc = "orphan" => stats_lock # Main

C19_Released ==
  /\ \A t \in Tasks :
       pc[t] \in FailedPcs \cup {"done"} =>
         collection_lock # <<t>> /\ stats_lock # <<t>>
  /\ vpc \in {"raised", "returned"} =>
       collection_lock # Main /\ stats_lock # Main

C19_Ended ==
  /\ vpc \in {"returned", "raised"}
  /\ \A t \in Tasks : Settled(t)

C19_Terminates ==
  []C19_NoHoldAndWait /\ []C19_Released /\ <>[]C19_Ended

\* A task's delete raised while a sibling waits for the lock it held, and
\* the sibling gets it.
C19_Witness ==
  \E t, u \in Tasks :
    /\ pc[t] = "failed_delete"
    /\ pc[u] = "add" /\ collection_lock = <<u>>
    /\ vpc = "awaiting"

(***************************************************************************)
(* C20.  Whenever vectorise has returned 0, added + updated is the number  *)
(* of files of the filtered list, and the statistics were emitted exactly  *)
(* once, after the orphan pass (scan made, bulk delete made if there was   *)
(* an orphan, both locks free again) and with the counters as they are     *)
(* then; before the return nothing is emitted.                             *)
(***************************************************************************)
C20_Returned ==
  ret = {0} =>
    /\ stats.add + stats.update = Len(files)
    /\ emitted = <<stats>>
    /\ calls.scan = 1
    /\ calls.bulk = (IF orphanes # {} THEN 1 ELSE 0)
    /\ stats.removed = Cardinality(orphanes)
    /\ collection_lock = Free /\ stats_lock = Free
    /\ \A r \in coll : r.path \notin orphanes

C20_NotBefore == ret # {0} => emitted = <<>>

\* Emitting and returning 0 are one step, taken from the end of the orphan
\* pass, and the counters of the pass do not change afterwards.
C20_Step ==
  /\ (emitted' # emitted /\ pass' = pass) =>
       /\ vpc = "show" /\ ret' = {0}
       /\ emitted' = <<stats>> /\ stats' = stats
  /\ (ret = {0} /\ pass' = pass) => (stats' = stats /\ emitted' = emitted)

C20_StatsOnce == [](C20_Returned /\ C20_NotBefore) /\ [][C20_Step]_vars

\* A pass over three files returned 0 after a bulk delete, with files both
\* added and updated.
C20_Witness ==
  /\ ret = {0}
  /\ Len(files) = 3
  /\ stats.add >= 1 /\ stats.update >= 1 /\ stats.removed >= 1
  /\ calls.bulk = 1

=============================================================================
